---------------------------- MODULE Spec2Model ----------------------------
(***************************************************************************)
(* Model of scripts/data_processing.py: the cleaning pipeline              *)
(* load_and_clean_data and the analyses main runs on its result            *)
(* (analyze_sales_trends, plot_top_products, analyze_customer_behavior,    *)
(* generate_comprehensive_report).                                         *)
(*                                                                         *)
(* Numbers.  Money is counted in thousandths of a currency unit, so that   *)
(* .round(2) (rounding to hundredths) is a real rounding.  Floating-point  *)
(* arithmetic is modelled by exact arithmetic: a quotient is a pair        *)
(* <<numerator, denominator>>, a quartile is kept as four times its value, *)
(* an outlier bound as eight times its value.  NaN and inf are tagged     *)
(* values of their own.                                                    *)
(*                                                                         *)
(* Cells.  An empty cell of a text or numeric column (NaN after            *)
(* read_excel) is the empty string in CustomerID and Description.          *)
(***************************************************************************)
EXTENDS Integers, Sequences, FiniteSets, TLC

VARIABLES
    file,               \* the workbook at file_path: [rows, customer_dtype]
    top_n,              \* the n handed to plot_top_products
    pc,                 \* the statement main / load_and_clean_data is at
    df,                 \* load_and_clean_data: df
    df_clean,           \* load_and_clean_data: df_clean (main: df_clean)
    initial_rows,       \* load_and_clean_data: initial_rows
    removed_customers,  \* load_and_clean_data: removed_customers
    missing_desc,       \* load_and_clean_data: missing_desc
    removed_invalid,    \* load_and_clean_data: removed_invalid
    bound,              \* load_and_clean_data: lower_bound, upper_bound (x 8)
    removed_outliers,   \* load_and_clean_data: removed_outliers
    monthly_trends,     \* main: monthly_trends
    top_products,       \* main: top_products
    customer_analysis,  \* main: customer_analysis
    top10,              \* analyze_customer_behavior: the "Top 10%" line
    report,             \* generate_comprehensive_report: its printed metrics
    result,             \* what main returned
    exc,                \* the exception in flight: [type, stage]
    run,                \* which run of load_and_clean_data this is
    first_clean         \* the frame the first run returned

vars == <<file, top_n, pc, df, df_clean, initial_rows, removed_customers,
          missing_desc, removed_invalid, bound, removed_outliers,
          monthly_trends, top_products, customer_analysis, top10, report,
          result, exc, run, first_clean>>

-----------------------------------------------------------------------------
(* Bounds of the model *)

\* rows of a workbook, cleaning runs
MaxCleanRows == 5
\* rows of a workbook, whole-pipeline runs
MaxRows == 3
\* rows of a workbook, product-ranking runs
MaxProductRows == 4
\* largest n tried for plot_top_products
MaxTopN == 3

\* plot_top_products(df, n=10); main passes n=10
DefaultTopN == 10

-----------------------------------------------------------------------------
(* Generic helpers *)

Range(s) == {s[i] : i \in 1..Len(s)}

Min(a, b) == IF a <= b THEN a ELSE b

Max(a, b) == IF a >= b THEN a ELSE b

RECURSIVE SumSeq(_)
SumSeq(s) == IF s = <<>> THEN 0 ELSE Head(s) + SumSeq(Tail(s))

\* the sequences over S of length 0..n
SeqsUpTo(S, n) == UNION {[1..k -> S] : k \in 0..n}

\* r with the columns of ext added or overwritten
Extend(r, ext) ==
    [k \in DOMAIN r \cup DOMAIN ext |-> IF k \in DOMAIN ext THEN ext[k] ELSE r[k]]

\* stable sort of s by the strict order Less
SortBy(s, Less(_, _)) ==
    LET n == Len(s)
        Rank(i) == 1 + Cardinality({m \in 1..n :
                        Less(s[m], s[i]) \/ (~Less(s[i], s[m]) /\ m < i)})
    IN  [j \in 1..n |-> s[CHOOSE i \in 1..n : Rank(i) = j]]

\* the elements of S in increasing order of the strict total order Less
SetToSortedSeq(S, Less(_, _)) ==
    [j \in 1..Cardinality(S) |->
        CHOOSE x \in S : Cardinality({y \in S : Less(y, x)}) = j - 1]

IntLess(a, b) == a < b

\* Python's order on the strings that occur as group keys
StringOrder ==
    <<"", "13047.0", "17850.0", "BOX", "MUG", "Unknown Product">>

StrRank(s) == CHOOSE i \in 1..Len(StringOrder) : StringOrder[i] = s

StrLess(a, b) == StrRank(a) < StrRank(b)

\* numpy's round to 2 decimals of v thousandths: a multiple of 10, half to even
Round2(v) ==
    LET q == v \div 10
        r == v % 10
    IN  IF r < 5 THEN 10 * q
        ELSE IF r > 5 THEN 10 * (q + 1)
        ELSE IF q % 2 = 0 THEN 10 * q ELSE 10 * (q + 1)

\* round to 2 decimals of the quotient num/den (thousandths), den > 0
Round2Div(num, den) ==
    LET q == num \div (10 * den)
        r == num % (10 * den)
    IN  IF 2 * r < 10 * den THEN 10 * q
        ELSE IF 2 * r > 10 * den THEN 10 * (q + 1)
        ELSE IF q % 2 = 0 THEN 10 * q ELSE 10 * (q + 1)

\* a float: a finite quotient, or NaN, or inf
Num(n, d) == [kind |-> "num", num |-> n, den |-> d]

NaN == [kind |-> "NaN"]

Inf == [kind |-> "inf"]

\* a / b in float64 arithmetic with numpy scalars: no exception on b = 0
FloatDiv(a, b) ==
    IF b # 0 THEN Num(a, b) ELSE IF a = 0 THEN NaN ELSE Inf

-----------------------------------------------------------------------------
(* Timestamps *)

DaysInMonth(y, m) ==
    IF m \in {4, 6, 9, 11} THEN 30
    ELSE IF m = 2 THEN (IF y % 4 = 0 /\ (y % 100 # 0 \/ y % 400 = 0) THEN 29 ELSE 28)
    ELSE 31

\* whether pd.to_datetime can parse the cell <<year, month, day, hour>>
Parseable(t) ==
    /\ t[2] \in 1..12
    /\ t[3] \in 1..DaysInMonth(t[1], t[2])
    /\ t[4] \in 0..23

\* pd.to_datetime of a parseable cell
ToDatetime(t) == [year |-> t[1], month |-> t[2], day |-> t[3], hour |-> t[4]]

RECURSIVE DaysBeforeMonth(_, _)
DaysBeforeMonth(y, m) ==
    IF m = 1 THEN 0 ELSE DaysBeforeMonth(y, m - 1) + DaysInMonth(y, m - 1)

RECURSIVE DaysBeforeYear(_)
DaysBeforeYear(y) ==
    IF y <= 2010 THEN 0
    ELSE DaysBeforeYear(y - 1) + DaysBeforeMonth(y - 1, 12) + 31

\* hours of the Timestamp ts since 2010-01-01 00:00
Hours(ts) ==
    24 * (DaysBeforeYear(ts.year) + DaysBeforeMonth(ts.year, ts.month) + ts.day - 1)
    + ts.hour

\* (b - a).days for Timestamps a <= b: whole days of the Timedelta
TimedeltaDays(a, b) == (Hours(b) - Hours(a)) \div 24

SetMax(S) == CHOOSE x \in S : \A y \in S : y <= x

SetMin(S) == CHOOSE x \in S : \A y \in S : x <= y

-----------------------------------------------------------------------------
(* load_and_clean_data: the steps as functions of the frame *)

\* df.dropna(subset=['CustomerID'])
DropMissingCustomerID(d) == SelectSeq(d, LAMBDA r : r.CustomerID # "")

\* df_clean['Description'].isnull().sum()
CountMissingDescription(d) == Len(SelectSeq(d, LAMBDA r : r.Description = ""))

\* df_clean['Description'].fillna('Unknown Product')
FillDescription(d) ==
    [i \in 1..Len(d) |->
        IF d[i].Description = ""
        THEN [d[i] EXCEPT !.Description = "Unknown Product"]
        ELSE d[i]]

\* a conversion that formats every cell as a float, text cells included
CustomerStrAlwaysFloat(c, dtype) == c \o ".0"

\* astype(str) of a CustomerID cell: a float64 17850.0 prints "17850.0",
\* a cell that is text already is kept
CustomerStr(c, dtype) == IF dtype = "float64" THEN c \o ".0" ELSE c

\* pd.to_datetime(df_clean['InvoiceDate']) raises on an unparseable cell
AllParseable(d) == \A i \in 1..Len(d) : Parseable(d[i].InvoiceDate)

ConvertDataTypes(d, dtype) ==
    [i \in 1..Len(d) |->
        [d[i] EXCEPT !.InvoiceDate = ToDatetime(@),
                     !.CustomerID = CustomerStr(@, dtype)]]

\* Year, Month, Hour from InvoiceDate
\* (DayOfWeek, which no analysis modelled here reads back, is left out)
CreateTimeFeatures(d) ==
    [i \in 1..Len(d) |->
        Extend(d[i], [Year  |-> d[i].InvoiceDate.year,
                      Month |-> d[i].InvoiceDate.month,
                      Hour  |-> d[i].InvoiceDate.hour])]

\* df_clean['TotalAmount'] = df_clean['Quantity'] * df_clean['UnitPrice']
CalculateTotalAmount(d) ==
    [i \in 1..Len(d) |->
        Extend(d[i], [TotalAmount |-> d[i].Quantity * d[i].UnitPrice])]

\* the mask of step 6
IsValidTransaction(r) ==
    r.Quantity > 0 /\ r.UnitPrice > 0 /\ r.TotalAmount > 0

RemoveInvalid(d) == SelectSeq(d, IsValidTransaction)

\* a count of the rows with a non-positive quantity alone
RemovedInvalidNegativeQuantityOnly(before, after) ==
    Len(SelectSeq(before, LAMBDA r : r.Quantity <= 0))

\* removed_invalid = before_filter - len(df_clean)
RemovedInvalidCount(before, after) == Len(before) - Len(after)

\* Series.quantile(k/4), linear interpolation, as 4 x the quantile;
\* vals is not empty
Quantile4(vals, k) ==
    LET s == SortBy(vals, IntLess)
        pos == k * (Len(s) - 1)
        i == pos \div 4
        f == pos % 4
    IN  IF f = 0 THEN 4 * s[i + 1]
        ELSE (4 - f) * s[i + 1] + f * s[i + 2]

TotalAmounts(d) == [i \in 1..Len(d) |-> d[i].TotalAmount]

\* bounds at 1.0 x IQR instead of 1.5 x IQR
IQRBoundsNarrow(d) ==
    IF d = <<>> THEN [nan |-> TRUE, lower |-> 0, upper |-> 0]
    ELSE LET Q1 == Quantile4(TotalAmounts(d), 1)
             Q3 == Quantile4(TotalAmounts(d), 3)
             IQR == Q3 - Q1
         IN  [nan |-> FALSE, lower |-> 2 * Q1 - 2 * IQR, upper |-> 2 * Q3 + 2 * IQR]

\* lower_bound and upper_bound, as 8 x their value; the quantiles of an
\* empty frame are NaN
IQRBounds(d) ==
    IF d = <<>> THEN [nan |-> TRUE, lower |-> 0, upper |-> 0]
    ELSE LET Q1 == Quantile4(TotalAmounts(d), 1)
             Q3 == Quantile4(TotalAmounts(d), 3)
             IQR == Q3 - Q1
         IN  [nan |-> FALSE, lower |-> 2 * Q1 - 3 * IQR, upper |-> 2 * Q3 + 3 * IQR]

\* the mask of step 7; a comparison with NaN is False
IsInlier(r, b) ==
    ~b.nan /\ 8 * r.TotalAmount >= b.lower /\ 8 * r.TotalAmount <= b.upper

RemoveOutliers(d, b) == SelectSeq(d, LAMBDA r : IsInlier(r, b))

-----------------------------------------------------------------------------
(* Exceptions *)

NoException == [type |-> "none", stage |-> "none"]

Raise(type, stage) ==
    /\ exc' = [type |-> type, stage |-> stage]
    /\ pc' = "raised"

-----------------------------------------------------------------------------
(* load_and_clean_data: one action per step *)

\* df = pd.read_excel(file_path)
LoadData ==
    /\ pc = "load"
    /\ df' = file.rows
    /\ pc' = "dropna"
    /\ UNCHANGED <<file, top_n, df_clean, initial_rows, removed_customers,
                   missing_desc, removed_invalid, bound, removed_outliers,
                   monthly_trends, top_products, customer_analysis, top10,
                   report, result, exc, run, first_clean>>

\* 1. Remove rows with missing CustomerID
RemoveMissingCustomer ==
    /\ pc = "dropna"
    /\ initial_rows' = Len(df)
    /\ df_clean' = DropMissingCustomerID(df)
    /\ removed_customers' = Len(df) - Len(DropMissingCustomerID(df))
    /\ pc' = "fill_description"
    /\ UNCHANGED <<file, top_n, df, missing_desc, removed_invalid, bound,
                   removed_outliers, monthly_trends, top_products,
                   customer_analysis, top10, report, result, exc, run,
                   first_clean>>

\* 2. Handle missing Description
HandleMissingDescription ==
    /\ pc = "fill_description"
    /\ missing_desc' = CountMissingDescription(df_clean)
    /\ df_clean' = FillDescription(df_clean)
    /\ pc' = "convert"
    /\ UNCHANGED <<file, top_n, df, initial_rows, removed_customers,
                   removed_invalid, bound, removed_outliers, monthly_trends,
                   top_products, customer_analysis, top10, report, result,
                   exc, run, first_clean>>

\* 3. Convert data types
ConvertTypes ==
    /\ pc = "convert"
    /\ IF AllParseable(df_clean)
       THEN /\ df_clean' = ConvertDataTypes(df_clean, file.customer_dtype)
            /\ pc' = "time_features"
            /\ exc' = exc
       ELSE /\ Raise("ValueError", "load_and_clean_data")
            /\ df_clean' = df_clean
    /\ UNCHANGED <<file, top_n, df, initial_rows, removed_customers,
                   missing_desc, removed_invalid, bound, removed_outliers,
                   monthly_trends, top_products, customer_analysis, top10,
                   report, result, run, first_clean>>

\* 4. Create additional time features
TimeFeatures ==
    /\ pc = "time_features"
    /\ df_clean' = CreateTimeFeatures(df_clean)
    /\ pc' = "total_amount"
    /\ UNCHANGED <<file, top_n, df, initial_rows, removed_customers,
                   missing_desc, removed_invalid, bound, removed_outliers,
                   monthly_trends, top_products, customer_analysis, top10,
                   report, result, exc, run, first_clean>>

\* 5. Calculate total amount per transaction
TotalAmount ==
    /\ pc = "total_amount"
    /\ df_clean' = CalculateTotalAmount(df_clean)
    /\ pc' = "remove_invalid"
    /\ UNCHANGED <<file, top_n, df, initial_rows, removed_customers,
                   missing_desc, removed_invalid, bound, removed_outliers,
                   monthly_trends, top_products, customer_analysis, top10,
                   report, result, exc, run, first_clean>>

\* 6. Remove invalid transactions
RemoveInvalidTransactions ==
    /\ pc = "remove_invalid"
    /\ df_clean' = RemoveInvalid(df_clean)
    /\ removed_invalid' = RemovedInvalidCount(df_clean, RemoveInvalid(df_clean))
    /\ pc' = "remove_outliers"
    /\ UNCHANGED <<file, top_n, df, initial_rows, removed_customers,
                   missing_desc, bound, removed_outliers, monthly_trends,
                   top_products, customer_analysis, top10, report, result,
                   exc, run, first_clean>>

\* 7. Remove extreme outliers using IQR method
RemoveExtremeOutliers ==
    /\ pc = "remove_outliers"
    /\ bound' = IQRBounds(df_clean)
    /\ df_clean' = RemoveOutliers(df_clean, IQRBounds(df_clean))
    /\ removed_outliers' =
           Len(df_clean) - Len(RemoveOutliers(df_clean, IQRBounds(df_clean)))
    /\ pc' = "summary"
    /\ UNCHANGED <<file, top_n, df, initial_rows, removed_customers,
                   missing_desc, removed_invalid, monthly_trends,
                   top_products, customer_analysis, top10, report, result,
                   exc, run, first_clean>>

\* Final summary; len(df_clean)/initial_rows is a division of Python ints
FinalSummary ==
    /\ pc = "summary"
    /\ IF initial_rows = 0
       THEN Raise("ZeroDivisionError", "load_and_clean_data")
       ELSE pc' = "cleaned" /\ exc' = exc
    /\ UNCHANGED <<file, top_n, df, df_clean, initial_rows, removed_customers,
                   missing_desc, removed_invalid, bound, removed_outliers,
                   monthly_trends, top_products, customer_analysis, top10,
                   report, result, run, first_clean>>

NextClean ==
    \/ LoadData
    \/ RemoveMissingCustomer
    \/ HandleMissingDescription
    \/ ConvertTypes
    \/ TimeFeatures
    \/ TotalAmount
    \/ RemoveInvalidTransactions
    \/ RemoveExtremeOutliers
    \/ FinalSummary

-----------------------------------------------------------------------------
(* Workbooks *)

Row(inv, stock, desc, qty, price, cust, date) ==
    [InvoiceNo |-> inv, StockCode |-> stock, Description |-> desc,
     Quantity |-> qty, UnitPrice |-> price, CustomerID |-> cust,
     InvoiceDate |-> date]

\* rows that exercise every cleaning stage: no customer, an unparseable
\* date, a return, a free item without description, and amounts 1, 2, 4
CleanRows ==
    { Row(536365, 22423, "MUG", 1, 1000, "", <<2010, 12, 31, 20>>),
      Row(536366, 22423, "MUG", 1, 1000, "17850", <<2011, 2, 30, 9>>),
      Row(536367, 22423, "MUG", -1, 1000, "17850", <<2010, 12, 31, 20>>),
      Row(536368, 22423, "", 1, 0, "17850", <<2010, 12, 31, 20>>),
      Row(536369, 22423, "MUG", 1, 1000, "17850", <<2010, 12, 31, 20>>),
      Row(536370, 22423, "MUG", 2, 1000, "17850", <<2011, 1, 1, 8>>),
      Row(536371, 22423, "MUG", 4, 1000, "13047", <<2011, 2, 1, 9>>) }

InitWith(rows, n) ==
    /\ file = [rows |-> rows, customer_dtype |-> "float64"]
    /\ top_n = n
    /\ pc = "load"
    /\ df = <<>>
    /\ df_clean = <<>>
    /\ initial_rows = 0
    /\ removed_customers = 0
    /\ missing_desc = 0
    /\ removed_invalid = 0
    /\ bound = [nan |-> TRUE, lower |-> 0, upper |-> 0]
    /\ removed_outliers = 0
    /\ monthly_trends = <<>>
    /\ top_products = <<>>
    /\ customer_analysis = <<>>
    /\ top10 = [k |-> 0, share |-> NaN]
    /\ report = [date_range |-> 0, avg_daily_revenue |-> NaN]
    /\ result = [kind |-> "unset"]
    /\ exc = NoException
    /\ run = 1
    /\ first_clean = <<>>

InitClean == \E rows \in SeqsUpTo(CleanRows, MaxCleanRows) : InitWith(rows, DefaultTopN)

SpecClean == InitClean /\ [][NextClean]_vars

-----------------------------------------------------------------------------
(* analyze_sales_trends *)

Rows(d, Match(_)) == SelectSeq(d, Match)

Column(d, c) == {d[i][c] : i \in 1..Len(d)}

\* the (Year, Month) keys of df.groupby(['Year', 'Month']), in key order
PeriodLess(a, b) == a[1] < b[1] \/ (a[1] = b[1] /\ a[2] < b[2])

PeriodKeys(d) ==
    SetToSortedSeq({<<d[i].Year, d[i].Month>> : i \in 1..Len(d)}, PeriodLess)

\* str(Year) + '-' + str(Month).zfill(2)
YearMonth(y, m) ==
    ToString(y) \o "-" \o (IF m < 10 THEN "0" \o ToString(m) ELSE ToString(m))

\* pd.to_datetime of a YearMonth text: midnight of the first of the month
YearMonthDate(y, m) == [year |-> y, month |-> m, day |-> 1, hour |-> 0]

\* one row of the aggregation, .round(2) applied, columns renamed
MonthlyRow(d, key) ==
    LET g == Rows(d, LAMBDA r : r.Year = key[1] /\ r.Month = key[2])
        total == SumSeq(TotalAmounts(g))
    IN  [Year |-> key[1], Month |-> key[2],
         Total_Revenue |-> Round2(total),
         Total_Transactions |-> Len(g),
         Avg_Transaction_Value |-> Round2Div(total, Len(g)),
         Unique_Customers |-> Cardinality(Column(g, "CustomerID")),
         Unique_Products |-> Cardinality(Column(g, "StockCode")),
         YearMonth |-> YearMonth(key[1], key[2]),
         Date |-> YearMonthDate(key[1], key[2])]

MonthlyAggregation(d) ==
    LET keys == PeriodKeys(d)
    IN  [i \in 1..Len(keys) |-> MonthlyRow(d, keys[i])]

\* an order on the month number alone
DateLessByMonthOnly(a, b) == a.Date.month < b.Date.month

\* the order of monthly_sales.sort_values('Date')
DateLess(a, b) == Hours(a.Date) < Hours(b.Date)

\* Series.pct_change() * 100 at position i of the values xs
PctChange(xs, i) ==
    IF i = 1 THEN NaN
    ELSE IF xs[i - 1] = 0 THEN (IF xs[i] = 0 THEN NaN ELSE Inf)
    ELSE Num(100 * (xs[i] - xs[i - 1]), xs[i - 1])

WithGrowth(m) ==
    LET rev == [i \in 1..Len(m) |-> m[i].Total_Revenue]
        cus == [i \in 1..Len(m) |-> m[i].Unique_Customers]
    IN  [i \in 1..Len(m) |->
            Extend(m[i], [Revenue_Growth |-> PctChange(rev, i),
                          Customer_Growth |-> PctChange(cus, i)])]

MonthlySales(d) == WithGrowth(SortBy(MonthlyAggregation(d), DateLess))

\* analyze_sales_trends(df_clean); Series.idxmax() of the summary print
\* raises ValueError on an empty summary
AnalyzeSalesTrends ==
    /\ pc = "cleaned"
    /\ IF MonthlySales(df_clean) = <<>>
       THEN /\ Raise("ValueError", "analyze_sales_trends")
            /\ monthly_trends' = monthly_trends
       ELSE /\ monthly_trends' = MonthlySales(df_clean)
            /\ pc' = "top_products"
            /\ exc' = exc
    /\ UNCHANGED <<file, top_n, df, df_clean, initial_rows, removed_customers,
                   missing_desc, removed_invalid, bound, removed_outliers,
                   top_products, customer_analysis, top10, report, result,
                   run, first_clean>>

-----------------------------------------------------------------------------
(* plot_top_products *)

\* the (StockCode, Description) keys of the groupby, in key order
ProductLess(a, b) == a[1] < b[1] \/ (a[1] = b[1] /\ StrLess(a[2], b[2]))

ProductKeys(d) ==
    SetToSortedSeq({<<d[i].StockCode, d[i].Description>> : i \in 1..Len(d)},
                   ProductLess)

ProductRow(d, key) ==
    LET g == Rows(d, LAMBDA r : r.StockCode = key[1] /\ r.Description = key[2])
        qty == SumSeq([i \in 1..Len(g) |-> g[i].Quantity])
        revenue == Round2(SumSeq(TotalAmounts(g)))
        orders == Cardinality(Column(g, "InvoiceNo"))
        customers == Cardinality(Column(g, "CustomerID"))
    IN  [StockCode |-> key[1], Description |-> key[2],
         Total_Quantity_Sold |-> qty,
         Total_Revenue |-> revenue,
         Number_of_Orders |-> orders,
         Unique_Customers |-> customers,
         Avg_Unit_Price |->
             Round2Div(SumSeq([i \in 1..Len(g) |-> g[i].UnitPrice]), Len(g)),
         Revenue_per_Customer |-> Round2Div(revenue, customers),
         Avg_Quantity_per_Order |-> Round2Div(1000 * qty, orders)]

ProductAnalysis(d) ==
    LET keys == ProductKeys(d)
    IN  [i \in 1..Len(keys) |-> ProductRow(d, keys[i])]

\* the n rows with the smallest col, smallest first
NSmallest(frame, n, col) ==
    SubSeq(SortBy(frame, LAMBDA a, b : a[col] < b[col]), 1, Min(n, Len(frame)))

\* DataFrame.nlargest(n, col): the n rows with the largest col, largest
\* first, equal values in frame order (keep='first')
NLargest(frame, n, col) ==
    SubSeq(SortBy(frame, LAMBDA a, b : a[col] > b[col]), 1, Min(n, Len(frame)))

\* plot_top_products(df_clean, n)
PlotTopProducts ==
    /\ pc = "top_products"
    /\ top_products' = NLargest(ProductAnalysis(df_clean), top_n, "Total_Revenue")
    /\ pc' = "customers"
    /\ UNCHANGED <<file, top_n, df, df_clean, initial_rows, removed_customers,
                   missing_desc, removed_invalid, bound, removed_outliers,
                   monthly_trends, customer_analysis, top10, report, result,
                   exc, run, first_clean>>

-----------------------------------------------------------------------------
(* analyze_customer_behavior *)

CustomerKeys(d) == SetToSortedSeq(Column(d, "CustomerID"), StrLess)

CustomerRow(d, c) ==
    LET g == Rows(d, LAMBDA r : r.CustomerID = c)
        total == SumSeq(TotalAmounts(g))
        times == {Hours(g[i].InvoiceDate) : i \in 1..Len(g)}
        first == CHOOSE i \in 1..Len(g) : Hours(g[i].InvoiceDate) = SetMin(times)
        last == CHOOSE i \in 1..Len(g) : Hours(g[i].InvoiceDate) = SetMax(times)
    IN  [CustomerID |-> c,
         Total_Orders |-> Cardinality(Column(g, "InvoiceNo")),
         Total_Spent |-> Round2(total),
         Avg_Order_Value |-> Round2Div(total, Len(g)),
         Total_Items |-> SumSeq([i \in 1..Len(g) |-> g[i].Quantity]),
         First_Purchase |-> g[first].InvoiceDate,
         Last_Purchase |-> g[last].InvoiceDate,
         Unique_Products |-> Cardinality(Column(g, "StockCode")),
         Customer_Lifetime_Days |->
             TimedeltaDays(g[first].InvoiceDate, g[last].InvoiceDate)]

CustomerStats(d) ==
    LET keys == CustomerKeys(d)
    IN  [i \in 1..Len(keys) |-> CustomerRow(d, keys[i])]

\* int(len(customer_stats) * 0.1)
TopDecileCount(stats) == Len(stats) \div 10

\* the "Top 10% customers contribute" figure:
\* nlargest(k, 'Total_Spent')['Total_Spent'].sum() / total * 100
TopDecileShare(stats) ==
    LET top == NLargest(stats, TopDecileCount(stats), "Total_Spent")
        spent(s) == SumSeq([i \in 1..Len(s) |-> s[i].Total_Spent])
    IN  [k |-> Len(top), share |-> FloatDiv(100 * spent(top), spent(stats))]

AnalyzeCustomerBehavior ==
    /\ pc = "customers"
    /\ customer_analysis' = CustomerStats(df_clean)
    /\ top10' = TopDecileShare(CustomerStats(df_clean))
    /\ pc' = "report"
    /\ UNCHANGED <<file, top_n, df, df_clean, initial_rows, removed_customers,
                   missing_desc, removed_invalid, bound, removed_outliers,
                   monthly_trends, top_products, report, result, exc, run,
                   first_clean>>

-----------------------------------------------------------------------------
(* generate_comprehensive_report *)

\* (df['InvoiceDate'].max() - df['InvoiceDate'].min()).days, df not empty
DateRange(d) ==
    LET times == {Hours(d[i].InvoiceDate) : i \in 1..Len(d)}
    IN  (SetMax(times) - SetMin(times)) \div 24

\* the key business metrics of a frame that is not empty;
\* total_revenue is a numpy float, so a zero date_range divides to inf
BusinessMetrics(d) ==
    LET total_revenue == SumSeq(TotalAmounts(d))
    IN  [date_range |-> DateRange(d),
         avg_daily_revenue |-> FloatDiv(total_revenue, DateRange(d))]

\* generate_comprehensive_report(df_clean).  The function only prints; a
\* print to a closed or broken stdout raises OSError (stdout_ok = FALSE).
\* On an empty frame daily_sales.idxmax() raises ValueError.
GenerateReport ==
    /\ pc = "report"
    /\ \E stdout_ok \in BOOLEAN :
          IF ~stdout_ok
          THEN /\ Raise("OSError", "generate_comprehensive_report")
               /\ report' = report
          ELSE IF df_clean = <<>>
          THEN /\ Raise("ValueError", "generate_comprehensive_report")
               /\ report' = report
          ELSE /\ report' = BusinessMetrics(df_clean)
               /\ pc' = "return"
               /\ exc' = exc
    /\ UNCHANGED <<file, top_n, df, df_clean, initial_rows, removed_customers,
                   missing_desc, removed_invalid, bound, removed_outliers,
                   monthly_trends, top_products, customer_analysis, top10,
                   result, run, first_clean>>

-----------------------------------------------------------------------------
(* main *)

None == [kind |-> "None"]

\* return {'cleaned_data': ..., 'monthly_trends': ..., ...}
ReturnResults ==
    /\ pc = "return"
    /\ result' = [kind |-> "dict",
                  cleaned_data |-> df_clean,
                  monthly_trends |-> monthly_trends,
                  top_products |-> top_products,
                  customer_analysis |-> customer_analysis]
    /\ pc' = "done"
    /\ UNCHANGED <<file, top_n, df, df_clean, initial_rows, removed_customers,
                   missing_desc, removed_invalid, bound, removed_outliers,
                   monthly_trends, top_products, customer_analysis, top10,
                   report, exc, run, first_clean>>

\* except Exception as e: print(...); return None
HandleException ==
    /\ pc = "raised"
    /\ result' = None
    /\ pc' = "done"
    /\ UNCHANGED <<file, top_n, df, df_clean, initial_rows, removed_customers,
                   missing_desc, removed_invalid, bound, removed_outliers,
                   monthly_trends, top_products, customer_analysis, top10,
                   report, exc, run, first_clean>>

Next ==
    \/ LoadData
    \/ RemoveMissingCustomer
    \/ HandleMissingDescription
    \/ ConvertTypes
    \/ TimeFeatures
    \/ TotalAmount
    \/ RemoveInvalidTransactions
    \/ RemoveExtremeOutliers
    \/ FinalSummary
    \/ AnalyzeSalesTrends
    \/ PlotTopProducts
    \/ AnalyzeCustomerBehavior
    \/ GenerateReport
    \/ ReturnResults
    \/ HandleException

\* two customers, three timestamps (two of them 12 hours apart across a
\* year end), amounts of 0.014 and 0.016, and one return
MainRows ==
    { Row(536365, 22423, "MUG", 1, price, cust, date) :
        price \in {14, 16}, cust \in {"17850", "13047"},
        date \in {<<2010, 12, 31, 20>>, <<2011, 1, 1, 8>>, <<2011, 2, 1, 9>>} }
    \cup { Row(536366, 22423, "MUG", -1, 16, "17850", <<2011, 1, 1, 8>>) }

Init == \E rows \in SeqsUpTo(MainRows, MaxRows) : InitWith(rows, DefaultTopN)

Spec == Init /\ [][Next]_vars

\* two stock codes, with and without description, amounts 0.014 and 0.016
ProductRows ==
    { Row(536365, 22423, "MUG", 1, 14, "17850", <<2010, 12, 31, 20>>),
      Row(536365, 22423, "MUG", 1, 16, "17850", <<2010, 12, 31, 20>>),
      Row(536365, 22423, "", 1, 14, "17850", <<2010, 12, 31, 20>>),
      Row(536366, 85123, "MUG", 1, 14, "13047", <<2010, 12, 31, 20>>),
      Row(536366, 85123, "MUG", 1, 16, "13047", <<2010, 12, 31, 20>>),
      Row(536366, 85123, "", 1, 16, "13047", <<2010, 12, 31, 20>>) }

InitProducts ==
    \E rows \in SeqsUpTo(ProductRows, MaxProductRows), n \in 0..MaxTopN :
        InitWith(rows, n)

SpecProducts == InitProducts /\ [][Next]_vars

-----------------------------------------------------------------------------
(* Cleaning the cleaned records again *)

\* the raw columns of a cleaned row as cells of a workbook
WrittenRow(r) ==
    Row(r.InvoiceNo, r.StockCode, r.Description, r.Quantity, r.UnitPrice,
        r.CustomerID,
        <<r.InvoiceDate.year, r.InvoiceDate.month, r.InvoiceDate.day,
          r.InvoiceDate.hour>>)

\* load_and_clean_data is called a second time, on the frame the first call
\* returned; CustomerID is a text column by then
Reclean ==
    /\ pc = "cleaned"
    /\ run = 1
    /\ first_clean' = df_clean
    /\ file' = [rows |-> [i \in 1..Len(df_clean) |-> WrittenRow(df_clean[i])],
                customer_dtype |-> "object"]
    /\ run' = 2
    /\ pc' = "load"
    /\ UNCHANGED <<top_n, df, df_clean, initial_rows, removed_customers,
                   missing_desc, removed_invalid, bound, removed_outliers,
                   monthly_trends, top_products, customer_analysis, top10,
                   report, result, exc>>

NextReclean == NextClean \/ Reclean

SpecReclean == InitClean /\ [][NextReclean]_vars

-----------------------------------------------------------------------------
(* Properties *)

\* load_and_clean_data has returned
Cleaned == pc = "cleaned"

\* C1: when load_and_clean_data has returned, the number of cleaned records
\* plus the drop counts of the three stages (missing customer id, invalid
\* values, outliers) is the number of raw records.
C1_Conservation ==
    Cleaned =>
        Len(df_clean) + removed_customers + removed_invalid + removed_outliers
            = Len(file.rows)

\* C1 witness: a run that returned records after dropping rows for invalid
\* values and as outliers
C1_Witness ==
    /\ Cleaned
    /\ removed_invalid > 0
    /\ removed_outliers > 0
    /\ Len(df_clean) > 0

\* the raw rows that survive the identity and validity filters
ValidPopulation ==
    SelectSeq(file.rows,
              LAMBDA r : r.CustomerID # "" /\ r.Quantity > 0 /\ r.UnitPrice > 0
                         /\ r.Quantity * r.UnitPrice > 0)

\* 8 x (Q1 - 1.5 IQR) and 8 x (Q3 + 1.5 IQR) of the amounts vals
LowerBound8(vals) == 5 * Quantile4(vals, 1) - 3 * Quantile4(vals, 3)

UpperBound8(vals) == 5 * Quantile4(vals, 3) - 3 * Quantile4(vals, 1)

ValidAmounts == [i \in 1..Len(ValidPopulation) |->
                    ValidPopulation[i].Quantity * ValidPopulation[i].UnitPrice]

\* C2: every record load_and_clean_data returns has quantity > 0, unit
\* price > 0, total amount = quantity x unit price > 0, and a total amount
\* inside [Q1 - 1.5 IQR, Q3 + 1.5 IQR], the bound computed once from the
\* records that survived the validity filter.
C2_CleanRecords ==
    (Cleaned /\ df_clean # <<>>) =>
        /\ ~bound.nan
        /\ bound.lower = LowerBound8(ValidAmounts)
        /\ bound.upper = UpperBound8(ValidAmounts)
        /\ \A i \in 1..Len(df_clean) :
              /\ df_clean[i].Quantity > 0
              /\ df_clean[i].UnitPrice > 0
              /\ df_clean[i].TotalAmount = df_clean[i].Quantity * df_clean[i].UnitPrice
              /\ df_clean[i].TotalAmount > 0
              /\ 8 * df_clean[i].TotalAmount >= LowerBound8(ValidAmounts)
              /\ 8 * df_clean[i].TotalAmount <= UpperBound8(ValidAmounts)

\* C2 witness: an outlier was dropped, and the bound of the returned records
\* is not the bound that was applied
C2_Witness ==
    /\ Cleaned
    /\ df_clean # <<>>
    /\ removed_outliers > 0
    /\ UpperBound8(TotalAmounts(df_clean)) # bound.upper

\* the second run of load_and_clean_data has returned
Recleaned == run = 2 /\ pc = "cleaned"

\* C3 as stated: a second run drops no record at any stage and returns the
\* records of the first run.
C3_Idempotent ==
    Recleaned =>
        /\ removed_customers = 0
        /\ removed_invalid = 0
        /\ removed_outliers = 0
        /\ df_clean = first_clean

\* the records of the first run inside the bound recomputed from them
FirstCleanInliers ==
    SelectSeq(first_clean,
              LAMBDA r : /\ 8 * r.TotalAmount >= LowerBound8(TotalAmounts(first_clean))
                         /\ 8 * r.TotalAmount <= UpperBound8(TotalAmounts(first_clean)))

\* C3 amended: a second run drops no record at the missing-customer and
\* invalid-value stages; its outlier stage recomputes the bound from the
\* records of the first run and keeps exactly the records inside it.
C3_SecondRun ==
    Recleaned =>
        /\ removed_customers = 0
        /\ removed_invalid = 0
        /\ df_clean = FirstCleanInliers
        /\ removed_outliers = Len(first_clean) - Len(df_clean)

\* C3 witness: a second run that returned after dropping a further outlier
C3_Witness == Recleaned /\ removed_outliers > 0 /\ Len(df_clean) > 0

\* C9 as stated: a row whose timestamp cannot be parsed does not abort
\* load_and_clean_data.
C9_MalformedRowNotFatal ==
    ~(pc = "raised" /\ exc = [type |-> "ValueError", stage |-> "load_and_clean_data"])

\* analyze_sales_trends has returned
TrendsReturned == pc \in {"top_products", "customers", "report", "return"}

CleanPeriods == {<<df_clean[i].Year, df_clean[i].Month>> : i \in 1..Len(df_clean)}

\* C4: analyze_sales_trends returns one summary per (year, month) of the
\* cleaned records, in strictly increasing chronological order, and the
\* growth fields of the first summary are NaN.
C4_PeriodSummaries ==
    TrendsReturned =>
        /\ Len(monthly_trends) = Cardinality(CleanPeriods)
        /\ {<<monthly_trends[i].Year, monthly_trends[i].Month>> :
                i \in 1..Len(monthly_trends)} = CleanPeriods
        /\ \A i \in 1..(Len(monthly_trends) - 1) :
              \/ monthly_trends[i].Year < monthly_trends[i + 1].Year
              \/ /\ monthly_trends[i].Year = monthly_trends[i + 1].Year
                 /\ monthly_trends[i].Month < monthly_trends[i + 1].Month
        /\ monthly_trends[1].Revenue_Growth = NaN
        /\ monthly_trends[1].Customer_Growth = NaN

\* C4 witness: three periods, the first in an earlier year
C4_Witness ==
    /\ TrendsReturned
    /\ Len(monthly_trends) = 3
    /\ monthly_trends[1].Year < monthly_trends[2].Year
    /\ Len(df_clean) > Len(monthly_trends) - 1

\* the unrounded sum of TotalAmount, and the distinct customers, of a period
PeriodRevenue(y, m) ==
    SumSeq(TotalAmounts(Rows(df_clean, LAMBDA r : r.Year = y /\ r.Month = m)))

PeriodCustomers(y, m) ==
    Cardinality(Column(Rows(df_clean, LAMBDA r : r.Year = y /\ r.Month = m),
                       "CustomerID"))

\* the float g is the quotient n / d
IsQuotient(g, n, d) == g.kind = "num" /\ g.num * d = n * g.den

\* C5 as stated: the growth of every summary but the first is
\* (x[i] - x[i-1]) / x[i-1] x 100 over the unrounded revenue sums, and over
\* the distinct-customer counts.
C5_GrowthOfUnroundedSums ==
    TrendsReturned =>
        \A i \in 2..Len(monthly_trends) :
            LET cur == monthly_trends[i]
                prev == monthly_trends[i - 1]
                rev == PeriodRevenue(cur.Year, cur.Month)
                revPrev == PeriodRevenue(prev.Year, prev.Month)
                cus == PeriodCustomers(cur.Year, cur.Month)
                cusPrev == PeriodCustomers(prev.Year, prev.Month)
            IN  /\ IsQuotient(cur.Revenue_Growth, 100 * (rev - revPrev), revPrev)
                /\ IsQuotient(cur.Customer_Growth, 100 * (cus - cusPrev), cusPrev)

\* plot_top_products has returned
ProductsReturned == pc \in {"customers", "report", "return"}

CleanProducts ==
    {<<df_clean[i].StockCode, df_clean[i].Description>> : i \in 1..Len(df_clean)}

\* C6: the ranking has min(n, number of (stock code, description) groups)
\* entries, in non-increasing order of total revenue with groups of equal
\* revenue in group order, and is empty for n = 0.
C6_Ranking ==
    ProductsReturned =>
        /\ Len(top_products) = Min(top_n, Cardinality(CleanProducts))
        /\ \A i \in 1..(Len(top_products) - 1) :
              \/ top_products[i].Total_Revenue > top_products[i + 1].Total_Revenue
              \/ /\ top_products[i].Total_Revenue = top_products[i + 1].Total_Revenue
                 /\ ProductLess(
                       <<top_products[i].StockCode, top_products[i].Description>>,
                       <<top_products[i + 1].StockCode, top_products[i + 1].Description>>)
        /\ (top_n = 0 => top_products = <<>>)

\* C6 witness: more groups than n, a strict step and a tie in the ranking
C6_Witness ==
    /\ ProductsReturned
    /\ Len(top_products) = 3
    /\ Cardinality(CleanProducts) > 3
    /\ \E i \in 1..2 : top_products[i].Total_Revenue > top_products[i + 1].Total_Revenue
    /\ \E i \in 1..2 : top_products[i].Total_Revenue = top_products[i + 1].Total_Revenue

\* analyze_customer_behavior has returned
CustomersReturned == pc \in {"report", "return"}

\* ceil(n / 10)
CeilTenth(n) == (n + 9) \div 10

\* C7 as stated: the concentration figure is the spend of the top
\* ceil(10% of the customers), at least one customer, over the spend of all
\* customers x 100, and lies in [0, 100].
C7_TopDecile ==
    (CustomersReturned /\ customer_analysis # <<>>) =>
        LET k == Max(1, CeilTenth(Len(customer_analysis)))
            top == NLargest(customer_analysis, k, "Total_Spent")
            spent(s) == SumSeq([i \in 1..Len(s) |-> s[i].Total_Spent])
        IN  /\ top10.k = k
            /\ IsQuotient(top10.share, 100 * spent(top), spent(customer_analysis))
            /\ top10.share.num >= 0
            /\ top10.share.num <= 100 * top10.share.den

\* C8 as stated: when generate_comprehensive_report fails, main still
\* returns the summaries the earlier stages computed.
C8_PartialResults ==
    (pc = "done" /\ exc.stage = "generate_comprehensive_report") =>
        /\ result.kind = "dict"
        /\ result.cleaned_data = df_clean
        /\ result.monthly_trends = monthly_trends
        /\ result.top_products = top_products
        /\ result.customer_analysis = customer_analysis

\* C10 as stated: for cleaned records that are not empty the date range of
\* the report is at least 1 day and the average daily revenue is finite.
C10_DateRangePositive ==
    (pc = "return" /\ df_clean # <<>>) =>
        /\ report.date_range >= 1
        /\ report.avg_daily_revenue.kind = "num"

=============================================================================
